---- MODULE Spec2Model ----
(***************************************************************************)
(* casched: a single-threaded, time based task scheduler (src/src/lib.rs). *)
(*                                                                         *)
(* Time is counted in whole ticks.  `clock` is the monotonic clock that    *)
(* Instant::now() reads; it moves while a callable runs, while the thread  *)
(* sleeps and (by at most MaxLag) before a clock reading of run: the       *)
(* latter covers the time between with_tasks and run, the cost of a loop   *)
(* iteration and a sleep that lasts longer than asked.                     *)
(***************************************************************************)
EXTENDS Integers, Sequences, FiniteSets, TLC

(* ------------------------------ bounds -------------------------------- *)

\* Largest batch handed to Scheduler::with_tasks.
MaxTasks == 2

\* Largest Duration of a Once delay or of an Every / Counted interval.
MaxInterval == 1

\* Largest `count` of a Counted schedule.
MaxCount == 2

\* Longest run of a callable.
MaxDur == 2

\* Largest time that passes before a clock reading.
MaxLag == 1

\* The clock reading when the program starts.
StartClock == 1

\* Under Spec the clock stops at MaxClock: no step moves it further.
MaxClock == 7

\* Under FairSpec the clock stops at LiveClock, late enough for every Once
\* and Counted task of a batch to have fired for the last time: a firing
\* comes at most an interval and the runs and lags of the other tasks
\* after the one before.
LiveClock == StartClock + (MaxCount + 1) * (MaxInterval + MaxTasks * (MaxLag + MaxDur) + 1)

\* The invocation counters stop counting at MaxRuns.
MaxRuns == MaxCount + 1

TaskIds == 1..MaxTasks

Durations == 0..MaxInterval

(* ------------------------------ Option -------------------------------- *)

None == <<>>

Some(x) == <<x>>

Unwrap(o) == o[1]

(* ------------------------------- Stbi --------------------------------- *)

\* Instant's own (chronological) ordering.
InstantCmp(a, b) == IF a < b THEN "Less" ELSE IF a = b THEN "Equal" ELSE "Greater"

\* The comparison left as Instant's own: the reversal is lost.
StbiCmpNotReversed(self, other) == InstantCmp(self, other)

\* impl Ord for Stbi: (other.0).cmp(&self.0)
StbiCmp(self, other) == InstantCmp(other, self)

\* A subtraction that yields the distance instead of saturating.
StbiSinceAbs(self, earlier) == IF self > earlier THEN self - earlier ELSE earlier - self

\* Stbi::since: Instant::duration_since, which saturates at zero.
StbiSince(self, earlier) == IF self > earlier THEN self - earlier ELSE 0

\* An addition that goes back in time.
StbiAddGoesBack(self, rhs) == self - rhs

\* impl Add<Duration> for Stbi
StbiAdd(self, rhs) == self + rhs

(* ----------------------------- Schedule ------------------------------- *)

Once(delay) == [kind |-> "Once", delay |-> delay]

Every(d) == [kind |-> "Every", interval |-> d]

Counted(c, d) == [kind |-> "Counted", count |-> c, interval |-> d]

Schedules ==
    {Once(None)} \cup {Once(Some(d)) : d \in Durations}
        \cup {Every(d) : d \in Durations}
        \cup {Counted(c, d) : c \in 0..MaxCount, d \in Durations}

\* A transition that forgets to count down.
ScheduleRescheduleNoDecrement(self) ==
    IF self.kind = "Every" THEN Some(self)
    ELSE IF self.kind = "Counted" /\ self.count > 1 THEN Some(self)
    ELSE None

\* A transition that also repeats a Once schedule.
ScheduleRescheduleOnceRepeats(self) ==
    IF self.kind = "Every" \/ self.kind = "Once" THEN Some(self)
    ELSE IF self.count > 1 THEN Some([self EXCEPT !.count = @ - 1])
    ELSE None

\* A transition that ends an Every schedule after its firing.
ScheduleRescheduleEveryEnds(self) ==
    IF self.kind = "Counted" /\ self.count > 1
    THEN Some([self EXCEPT !.count = @ - 1])
    ELSE None

\* A transition that ends a Counted schedule one firing early.
ScheduleRescheduleEndsEarly(self) ==
    IF self.kind = "Every" THEN Some(self)
    ELSE IF self.kind = "Counted" /\ self.count > 2
         THEN Some([self EXCEPT !.count = @ - 1])
    ELSE None

\* A transition that goes on while the count is positive.
ScheduleRescheduleWhileCountPositive(self) ==
    IF self.kind = "Every" THEN Some(self)
    ELSE IF self.kind = "Counted" /\ self.count > 0
         THEN Some([self EXCEPT !.count = @ - 1])
    ELSE None

\* Schedule::reschedule
ScheduleReschedule(self) ==
    IF self.kind = "Every" THEN Some(self)
    ELSE IF self.kind = "Counted" /\ self.count > 1
         THEN Some([self EXCEPT !.count = @ - 1])
    ELSE None

\* Once(None) waits one tick instead of none.
AsDurationNoneWaits(self) ==
    IF self.kind = "Once"
    THEN (IF self.delay = None THEN 1 ELSE Unwrap(self.delay))
    ELSE self.interval

\* Schedule::as_duration
AsDuration(self) ==
    IF self.kind = "Once"
    THEN (IF self.delay = None THEN 0 ELSE Unwrap(self.delay))
    ELSE self.interval

\* Schedule::with: the callable is named by the position of its task.
With(self, f) == [schedule |-> self, f |-> f]

(* --------------------------- ScheduledTask ---------------------------- *)

\* The comparison with its sides swapped.
ScheduledTaskCmpSwapped(self, other) == StbiCmp(other.at, self.at)

\* impl Ord for ScheduledTask: self.at.cmp(&other.at)
ScheduledTaskCmp(self, other) == StbiCmp(self.at, other.at)

\* The new due time counted from the old due time.
NextAtFromDue(self, stbi, schedule) == StbiAdd(self.at, AsDuration(schedule))

\* ScheduledTask::reschedule, line 108: stbi + *self.task.schedule.as_duration()
NextAt(self, stbi, schedule) == StbiAdd(stbi, AsDuration(schedule))

\* ScheduledTask::reschedule
ScheduledTaskReschedule(self, stbi) ==
    LET schedule == ScheduleReschedule(self.task.schedule)
    IN  IF schedule = None THEN None
        ELSE Some([at |-> NextAt(self, stbi, Unwrap(schedule)),
                   task |-> [self.task EXCEPT !.schedule = Unwrap(schedule)]])

(* ---------------------------- BinaryHeap ------------------------------ *)
(* The heap is kept as the sequence in which it would hand out its        *)
(* entries: greatest first.  Entries that compare Equal have no fixed     *)
(* order: a push may place the new entry anywhere among its equals.       *)

\* The sequence with item put in the place of the entry at position p.
InsertAtOverwrites(heap, p, item) ==
    SubSeq(heap, 1, p - 1) \o <<item>> \o SubSeq(heap, p + 1, Len(heap))

\* The sequence with item put in at position p.
InsertAt(heap, p, item) == SubSeq(heap, 1, p - 1) \o <<item>> \o SubSeq(heap, p, Len(heap))

\* BinaryHeap::push
HeapPush(heap, item) ==
    {InsertAt(heap, p, item) : p \in
        {q \in 1..(Len(heap) + 1) :
            /\ \A i \in 1..(q - 1) : ScheduledTaskCmp(heap[i], item) # "Less"
            /\ \A i \in q..Len(heap) : ScheduledTaskCmp(heap[i], item) # "Greater"}}

\* BinaryHeap::peek
HeapPeek(heap) == IF heap = <<>> THEN None ELSE Some(Head(heap))

\* A pop that hands out the entry at the other end of the order.
HeapPopLast(heap) == IF heap = <<>> THEN None ELSE Some(heap[Len(heap)])

\* BinaryHeap::pop
HeapPop(heap) == IF heap = <<>> THEN None ELSE Some(Head(heap))

\* A pop that leaves the entry it hands out in the heap.
HeapAfterPopKeeps(heap) == heap

\* BinaryHeap::pop: what is left in the heap.
HeapAfterPop(heap) == IF heap = <<>> THEN heap ELSE Tail(heap)

(* ------------------------------ state --------------------------------- *)

VARIABLES
    tasks,      \* the Vec<Task> given to with_tasks
    schedule,   \* Scheduler.schedule, the BinaryHeap<ScheduledTask>
    clock,      \* the monotonic clock
    pc,         \* where the program is
    now,        \* run's `now`, None outside a loop iteration
    diff,       \* run's `diff`, None outside a loop iteration
    task,       \* run's `task`: the popped entry, None outside an execution
    baseline,   \* with_tasks' `now`, None before with_tasks
    runs,       \* invocations of each callable so far (at most MaxRuns)
    slept,      \* whether run has slept so far
    called      \* the clock when the callable of `task` was entered, None outside

vars == <<tasks, schedule, clock, pc, now, diff, task, baseline, runs, slept, called>>

Min(a, b) == IF a < b THEN a ELSE b

RECURSIVE PushAllFreshClock(_, _, _, _)
\* A construction that reads the clock anew for each task, a tick later
\* each time.
PushAllFreshClock(heap, batch, i, at0) ==
    IF i > Len(batch) THEN {heap}
    ELSE UNION {PushAllFreshClock(h, batch, i + 1, at0 + 1) :
                h \in HeapPush(heap, [at |-> StbiAdd(at0, AsDuration(batch[i].schedule)),
                                      task |-> batch[i]])}

RECURSIVE PushAllSkipsExhausted(_, _, _, _)
\* A construction that leaves out a Counted task with nothing left to count.
PushAllSkipsExhausted(heap, batch, i, at0) ==
    IF i > Len(batch) THEN {heap}
    ELSE IF batch[i].schedule.kind = "Counted" /\ batch[i].schedule.count = 0
         THEN PushAllSkipsExhausted(heap, batch, i + 1, at0)
    ELSE UNION {PushAllSkipsExhausted(h, batch, i + 1, at0) :
                h \in HeapPush(heap, [at |-> StbiAdd(at0, AsDuration(batch[i].schedule)),
                                      task |-> batch[i]])}

RECURSIVE PushAll(_, _, _, _)
\* with_tasks, lines 143-147: the heaps that pushing tasks i.. can produce.
PushAll(heap, batch, i, at0) ==
    IF i > Len(batch) THEN {heap}
    ELSE UNION {PushAll(h, batch, i + 1, at0) :
                h \in HeapPush(heap, [at |-> StbiAdd(at0, AsDuration(batch[i].schedule)),
                                      task |-> batch[i]])}

\* A number for each schedule, to list the tasks of a batch in one order.
SchedKey(s) ==
    IF s.kind = "Once" THEN (IF s.delay = None THEN 0 ELSE 1 + Unwrap(s.delay))
    ELSE IF s.kind = "Every" THEN (MaxInterval + 2) + s.interval
    ELSE 2 * (MaxInterval + 2) + s.count * (MaxInterval + 1) + s.interval

\* The batches, each listed once whatever the order of its tasks: the heap
\* gives entries with equal due times no fixed order, so the order of the
\* pushes in with_tasks decides nothing.
Batches ==
    {b \in UNION {[1..n -> Schedules] : n \in 0..MaxTasks} :
        \A i \in 1..(Len(b) - 1) : SchedKey(b[i]) <= SchedKey(b[i + 1])}

Init ==
    /\ \E b \in Batches : tasks = [i \in DOMAIN b |-> With(b[i], i)]
    /\ schedule = <<>>
    /\ clock = StartClock
    /\ pc = "with_tasks"
    /\ now = None
    /\ diff = None
    /\ task = None
    /\ baseline = None
    /\ runs = [i \in TaskIds |-> 0]
    /\ slept = FALSE
    /\ called = None

\* Scheduler::with_tasks
WithTasks ==
    /\ pc = "with_tasks"
    /\ baseline' = Some(clock)
    /\ schedule' \in PushAll(<<>>, tasks, 1, clock)
    /\ pc' = "run"
    /\ UNCHANGED <<tasks, clock, now, diff, task, runs, slept, called>>

\* Scheduler::run, lines 154-158: the queue is empty, run returns (the
\* clock reading of line 154 is never used).
RunReturn ==
    /\ pc = "run"
    /\ HeapPeek(schedule) = None
    /\ pc' = "returned"
    /\ UNCHANGED <<tasks, schedule, clock, now, diff, task, baseline, runs, slept, called>>

\* Scheduler::run, lines 154-164: the top is due and is popped.
RunPop(lag, limit) ==
    /\ pc = "run"
    /\ clock + lag <= limit
    /\ clock' = clock + lag
    /\ now' = Some(clock')
    /\ HeapPeek(schedule) # None
    /\ diff' = Some(StbiSince(Unwrap(HeapPeek(schedule)).at, clock'))
    /\ Unwrap(diff') = 0
    /\ task' = HeapPop(schedule)
    /\ schedule' = HeapAfterPop(schedule)
    /\ pc' = "call"
    /\ UNCHANGED <<tasks, baseline, runs, slept, called>>

\* Scheduler::run, lines 154-162 and 172: the top is not due.
RunWait(lag, limit) ==
    /\ pc = "run"
    /\ clock + lag <= limit
    /\ clock' = clock + lag
    /\ now' = Some(clock')
    /\ HeapPeek(schedule) # None
    /\ diff' = Some(StbiSince(Unwrap(HeapPeek(schedule)).at, clock'))
    /\ Unwrap(diff') # 0
    /\ pc' = "sleep"
    /\ UNCHANGED <<tasks, schedule, task, baseline, runs, slept, called>>

\* Scheduler::run, line 166: (task.task.f)() runs for dur ticks.
RunCall(dur, limit) ==
    /\ pc = "call"
    /\ clock + dur <= limit
    /\ called' = Some(clock)
    /\ clock' = clock + dur
    /\ runs' = [runs EXCEPT ![Unwrap(task).task.f] = Min(@ + 1, MaxRuns)]
    /\ pc' = "reschedule"
    /\ UNCHANGED <<tasks, schedule, now, diff, task, baseline, slept>>

\* The reference time taken after the callable has returned.
RescheduleReferenceAfterCall == clock

\* Scheduler::run, line 169: the argument of task.reschedule(now).
RescheduleReference == Unwrap(now)

\* Scheduler::run, lines 169-171: task.reschedule(now), pushed back if Some;
\* the iteration ends and its locals go out of scope.
RunReschedule ==
    /\ pc = "reschedule"
    /\ LET next == ScheduledTaskReschedule(Unwrap(task), RescheduleReference)
       IN  IF next = None THEN schedule' = schedule
           ELSE schedule' \in HeapPush(schedule, Unwrap(next))
    /\ task' = None
    /\ now' = None
    /\ diff' = None
    /\ called' = None
    /\ pc' = "run"
    /\ UNCHANGED <<tasks, clock, baseline, runs, slept>>

\* A sleep after which the top is popped and fired on the strength of the
\* reading taken before the sleep, with no second look at clock and queue.
RunSleepFiresTop(limit) ==
    /\ pc = "sleep"
    /\ clock + Unwrap(diff) <= limit
    /\ clock' = clock + Unwrap(diff)
    /\ slept' = TRUE
    /\ task' = HeapPop(schedule)
    /\ schedule' = HeapAfterPop(schedule)
    /\ pc' = "call"
    /\ UNCHANGED <<tasks, now, diff, baseline, runs, called>>

\* Scheduler::run, line 173: std::thread::sleep(diff); the iteration ends.
\* A sleep that lasts longer shows as the lag of the next clock reading.
RunSleep(limit) ==
    /\ pc = "sleep"
    /\ clock + Unwrap(diff) <= limit
    /\ clock' = clock + Unwrap(diff)
    /\ slept' = TRUE
    /\ now' = None
    /\ diff' = None
    /\ pc' = "run"
    /\ UNCHANGED <<tasks, schedule, task, baseline, runs, called>>

Next ==
    \/ WithTasks
    \/ RunReturn
    \/ \E lag \in 0..MaxLag : RunPop(lag, MaxClock)
    \/ \E lag \in 0..MaxLag : RunWait(lag, MaxClock)
    \/ \E dur \in 0..MaxDur : RunCall(dur, MaxClock)
    \/ RunReschedule
    \/ RunSleep(MaxClock)

Spec == Init /\ [][Next]_vars

(* ------------------------- run under fairness ------------------------- *)
(* The thread keeps running: a sleep ends, a callable returns, the loop   *)
(* goes on.  The clock advances: of the clock readings of the loop,       *)
(* infinitely many come later than the reading before.                    *)

LiveNext ==
    \/ WithTasks
    \/ RunReturn
    \/ \E lag \in 0..MaxLag : RunPop(lag, LiveClock)
    \/ \E lag \in 0..MaxLag : RunWait(lag, LiveClock)
    \/ \E dur \in 0..MaxDur : RunCall(dur, LiveClock)
    \/ RunReschedule
    \/ RunSleep(LiveClock)

ClockAdvances == \E lag \in 1..MaxLag : RunPop(lag, LiveClock) \/ RunWait(lag, LiveClock)

FairSpec ==
    Init /\ [][LiveNext]_vars /\ WF_vars(LiveNext) /\ SF_vars(ClockAdvances)

(* ---------------------- run with spurious wake-ups -------------------- *)
(* std::thread::sleep promises to sleep for at least the duration asked;  *)
(* the loop of run does not rely on it.  Here a sleep may also end some   *)
(* ticks before the duration asked has passed.                            *)

\* Scheduler::run, line 173: the sleep ends `early` ticks too soon.
RunSleepEarly(early, limit) ==
    /\ pc = "sleep"
    /\ early <= Unwrap(diff)
    /\ clock + (Unwrap(diff) - early) <= limit
    /\ clock' = clock + (Unwrap(diff) - early)
    /\ slept' = TRUE
    /\ now' = None
    /\ diff' = None
    /\ pc' = "run"
    /\ UNCHANGED <<tasks, schedule, task, baseline, runs, called>>

WakeNext ==
    \/ WithTasks
    \/ RunReturn
    \/ \E lag \in 0..MaxLag : RunPop(lag, MaxClock)
    \/ \E lag \in 0..MaxLag : RunWait(lag, MaxClock)
    \/ \E dur \in 0..MaxDur : RunCall(dur, MaxClock)
    \/ RunReschedule
    \/ RunSleep(MaxClock)
    \/ \E early \in 1..MaxInterval : RunSleepEarly(early, MaxClock)

WakeSpec == Init /\ [][WakeNext]_vars

(* ----------------------------- vocabulary ------------------------------ *)

InBatch(t) == t \in DOMAIN tasks

\* The schedule task t was given to with_tasks with.
Given(t) == tasks[t].schedule

IsOnce(t) == InBatch(t) /\ Given(t).kind = "Once"

IsOnceNone(t) == IsOnce(t) /\ Given(t).delay = None

IsEvery(t) == InBatch(t) /\ Given(t).kind = "Every"

IsCounted(t) == InBatch(t) /\ Given(t).kind = "Counted"

Repeats(t) == IsEvery(t) \/ IsCounted(t)

HasEvery == \E t \in TaskIds : IsEvery(t)

InQueue(t) == \E i \in 1..Len(schedule) : schedule[i].task.f = t

EntryOf(t) == schedule[CHOOSE i \in 1..Len(schedule) : schedule[i].task.f = t]

\* Task t is the entry run has popped and not yet pushed back or dropped.
Held(t) == task # None /\ Unwrap(task).task.f = t

Constructed == pc # "with_tasks"

(* -------------------------------- C1 ---------------------------------- *)

\* C1 as stated: each reschedule adds exactly the interval to the previous
\* due time, so a repeating task's entry that waits for its n-th execution
\* is due at baseline + n*d exactly.
C1_DueIsBaselinePlusNIntervals ==
    \A t \in TaskIds :
        (Repeats(t) /\ InQueue(t) /\ runs[t] < MaxRuns)
            => EntryOf(t).at = Unwrap(baseline) + (runs[t] + 1) * Given(t).interval

\* C1 amended: a reschedule sets the due time to the previous due time plus
\* the interval plus the lateness now - previous due (>= 0) with which the
\* loop noticed the task, whatever the time its callable took since; so the
\* due time of the n-th execution is at least baseline + n*d.
C1_DueIsPreviousDuePlusIntervalPlusLateness ==
    /\ [][\A t \in TaskIds :
            (pc = "reschedule" /\ Held(t) /\ InQueue(t)')
                => /\ Unwrap(now) >= Unwrap(task).at
                   /\ EntryOf(t)'.at = Unwrap(task).at + Given(t).interval
                                        + (Unwrap(now) - Unwrap(task).at)]_vars
    /\ [](\A t \in TaskIds :
            (Repeats(t) /\ InQueue(t) /\ runs[t] < MaxRuns)
                => EntryOf(t).at >= Unwrap(baseline) + (runs[t] + 1) * Given(t).interval)

\* A repeating task with a positive interval waits for its second execution
\* with a due time later than baseline + 2*d, its callable having run for
\* some time.
C1_Witness ==
    \E t \in TaskIds :
        /\ Repeats(t) /\ InQueue(t) /\ runs[t] = 1
        /\ Given(t).interval > 0
        /\ EntryOf(t).at > Unwrap(baseline) + 2 * Given(t).interval
        /\ clock > EntryOf(t).at - Given(t).interval

(* -------------------------------- C2 ---------------------------------- *)

CountedOf(t) == IsCounted(t) /\ Given(t).count >= 1

\* C2: a Counted task with count c >= 1 is never invoked more than c times,
\* is in the queue only while it has been invoked less than c times, and is
\* in the end invoked c times and gone for good, whatever else is in the
\* batch.
C2_CountedRunsExactlyCountTimes ==
    /\ [](\A t \in TaskIds :
            CountedOf(t) =>
                /\ runs[t] <= Given(t).count
                /\ InQueue(t) => runs[t] < Given(t).count
                /\ (Constructed /\ runs[t] < Given(t).count) => (InQueue(t) \/ Held(t)))
    /\ \A t \in TaskIds :
            <>[](CountedOf(t) =>
                    runs[t] = Given(t).count /\ ~InQueue(t) /\ ~Held(t))

\* A Counted task with count 2 has been invoked twice and is gone, and an
\* Every task of the same batch has fired after that and waits to fire again.
C2_Witness ==
    \E t, u \in TaskIds :
        /\ CountedOf(t) /\ Given(t).count = 2 /\ runs[t] = 2
        /\ ~InQueue(t) /\ ~Held(t)
        /\ IsEvery(u) /\ runs[u] = MaxRuns /\ InQueue(u)

(* -------------------------------- C3 ---------------------------------- *)

\* C3: a Once task is never invoked twice, is not in the queue once it has
\* been invoked, and is in the end invoked once and dropped.
C3_OnceRunsExactlyOnce ==
    /\ [](\A t \in TaskIds :
            IsOnce(t) =>
                /\ runs[t] <= 1
                /\ InQueue(t) => runs[t] = 0
                /\ (Constructed /\ runs[t] = 0) => (InQueue(t) \/ Held(t)))
    /\ \A t \in TaskIds :
            <>[](IsOnce(t) => runs[t] = 1 /\ ~InQueue(t) /\ ~Held(t))

\* A Once(Some(d)) task with d > 0 has been invoked and dropped while a
\* repeating task of the batch is still queued.
C3_Witness ==
    \E t, u \in TaskIds :
        /\ IsOnce(t) /\ Given(t).delay # None /\ Unwrap(Given(t).delay) > 0
        /\ runs[t] = 1 /\ ~InQueue(t) /\ ~Held(t) /\ pc = "run"
        /\ Repeats(u) /\ InQueue(u)

(* -------------------------------- C4 ---------------------------------- *)

\* C4: the wait computed for the top is max(0, due - now); the loop sleeps
\* exactly when the top is due later than now, and a callable is invoked
\* only with a wait of zero, at or after its due time, which is at least
\* baseline plus the wait of its schedule.
C4_NeverInvokedBeforeDue ==
    /\ pc = "sleep" =>
        /\ Head(schedule).at > Unwrap(now)
        /\ Unwrap(diff) = Head(schedule).at - Unwrap(now)
    /\ pc \in {"call", "reschedule"} =>
        /\ Unwrap(diff) = 0
        /\ Unwrap(task).at <= Unwrap(now)
        /\ Unwrap(now) <= clock
        /\ Unwrap(task).at >=
                Unwrap(baseline) + AsDuration(Given(Unwrap(task).task.f))
    /\ pc = "reschedule" => Unwrap(task).at <= Unwrap(called)

\* A task with a positive wait is about to be invoked for the first time,
\* after a sleep, at a clock reading >= baseline + d.
C4_Witness ==
    /\ pc = "call"
    /\ slept
    /\ runs[Unwrap(task).task.f] = 0
    /\ AsDuration(Given(Unwrap(task).task.f)) > 0
    /\ Unwrap(now) >= Unwrap(baseline) + AsDuration(Given(Unwrap(task).task.f))

(* -------------------------------- C5 ---------------------------------- *)

\* C5: what peek and pop return is an entry with the smallest due time of
\* the queue.
C5_PeekIsEarliest ==
    schedule # <<>> =>
        /\ \A i \in 1..Len(schedule) : Unwrap(HeapPeek(schedule)).at <= schedule[i].at
        /\ \A i \in 1..Len(schedule) : Unwrap(HeapPop(schedule)).at <= schedule[i].at

\* After a push in run the queue holds two entries with different due times.
C5_Witness ==
    /\ pc = "run"
    /\ Len(schedule) >= 2
    /\ \E t \in TaskIds : runs[t] > 0 /\ InQueue(t)
    /\ \E i \in 1..Len(schedule) : schedule[i].at > Unwrap(HeapPeek(schedule)).at

(* -------------------------------- C6 ---------------------------------- *)

\* C6 as stated: run returns only with an empty queue, and with an Every
\* task in the batch the queue is never empty and run never returns.
C6_QueueNeverEmptyWithEvery ==
    /\ pc = "returned" => schedule = <<>>
    /\ (HasEvery /\ Constructed) => (schedule # <<>> /\ pc # "returned")

\* C6 amended: run returns only with an empty queue, and with an Every task
\* in the batch every Every task is in the queue or is the popped entry
\* being executed, the queue is not empty whenever run peeks or sleeps, and
\* run never returns.
C6_EveryKeepsRunAlive ==
    /\ pc = "returned" => schedule = <<>>
    /\ (HasEvery /\ Constructed) =>
        /\ \A t \in TaskIds : IsEvery(t) => (InQueue(t) \/ Held(t))
        /\ pc \in {"run", "sleep"} => schedule # <<>>
        /\ pc # "returned"

\* An Every task that has fired MaxRuns times is popped once more: its
\* callable is about to run while the queue is empty.
C6_Witness ==
    /\ pc = "call"
    /\ schedule = <<>>
    /\ \E t \in TaskIds : IsEvery(t) /\ runs[t] = MaxRuns /\ Held(t)

(* -------------------------------- C7 ---------------------------------- *)

Max(a, b) == IF a > b THEN a ELSE b

\* C7: without an Every task run returns in the end; it returns only when
\* every Once task has fired and every Counted task has used up its count;
\* with an empty batch it returns from the first iteration, without a sleep.
C7_ReturnsWithoutEvery ==
    /\ (~HasEvery) ~> (pc = "returned")
    /\ [](pc = "returned" =>
            /\ \A t \in TaskIds : IsOnce(t) => runs[t] = 1
            /\ \A t \in TaskIds : IsCounted(t) =>
                    runs[t] >= Given(t).count /\ ~InQueue(t) /\ ~Held(t)
            /\ tasks = <<>> => ~slept)
    /\ []((tasks = <<>> /\ Constructed) => (pc \in {"run", "returned"} /\ ~slept))

\* run has returned after a Once task and a Counted task with count 2 have
\* fired, having slept on the way.
C7_Witness ==
    /\ pc = "returned"
    /\ slept
    /\ \E t, u \in TaskIds :
        IsOnce(t) /\ runs[t] = 1 /\ IsCounted(u) /\ Given(u).count = 2 /\ runs[u] = 2

(* -------------------------------- C8 ---------------------------------- *)

\* C8: as long as a Once(None) task has not been invoked, run has not slept
\* and is not about to.
C8_OnceNoneRunsBeforeAnySleep ==
    \A t \in TaskIds :
        (IsOnceNone(t) /\ runs[t] = 0) => (~slept /\ pc # "sleep")

\* A Once(None) task is about to be invoked after another task of the batch
\* has fired, and run has not slept.
C8_Witness ==
    \E t, u \in TaskIds :
        /\ IsOnceNone(t) /\ Held(t) /\ pc = "call" /\ ~slept
        /\ u # t /\ runs[u] > 0

(* -------------------------------- C9 ---------------------------------- *)

\* C9: the entry run executes is due no later than any entry then in the
\* queue, and of two tasks of a batch the one with the strictly shorter
\* first wait is invoked first.
C9_EarlierDueRunsFirst ==
    /\ pc \in {"call"} =>
        \A i \in 1..Len(schedule) : Unwrap(task).at <= schedule[i].at
    /\ \A t, u \in TaskIds :
        (InBatch(t) /\ InBatch(u) /\ AsDuration(Given(t)) < AsDuration(Given(u)))
            => /\ runs[u] > 0 => runs[t] > 0
               /\ (Held(u) /\ runs[u] = 0) => runs[t] > 0

\* A Once(Some(d)) task with d > 0 is about to be invoked after the
\* Once(None) task of its batch has fired.
C9_Witness ==
    \E t, u \in TaskIds :
        /\ IsOnceNone(t) /\ runs[t] = 1
        /\ IsOnce(u) /\ Given(u).delay # None /\ Unwrap(Given(u).delay) > 0
        /\ Held(u) /\ pc = "call"

(* -------------------------------- C10 --------------------------------- *)

\* C10: the reschedule of an executed entry is given the clock reading of
\* the iteration, taken before the callable was entered; a result that is
\* not None is pushed with due time reading + as_duration() of the new
\* schedule state and carries that state and the same callable, a None
\* result pushes nothing.
C10_RescheduleFromReadingBeforeCall ==
    [][\A t \in TaskIds :
        (pc = "reschedule" /\ Held(t)) =>
            /\ Unwrap(now) <= Unwrap(called)
            /\ LET new == ScheduleReschedule(Unwrap(task).task.schedule)
               IN  IF new = None
                   THEN schedule' = schedule
                   ELSE /\ Len(schedule') = Len(schedule) + 1
                        /\ InQueue(t)'
                        /\ EntryOf(t)' =
                              [at |-> Unwrap(now) + AsDuration(Unwrap(new)),
                               task |-> [schedule |-> Unwrap(new), f |-> t]]]_vars

\* A Counted task whose callable took time is held for its reschedule with a
\* count above 1: the clock has moved on since the reading.
C10_Witness ==
    /\ pc = "reschedule"
    /\ clock > Unwrap(now)
    /\ Unwrap(task).task.schedule.kind = "Counted"
    /\ Unwrap(task).task.schedule.count > 1

(* -------------------------------- C11 --------------------------------- *)

\* C11: when the callable of a repeating task has run for longer than the
\* task's interval, the entry pushed back is due before the clock; and as
\* long as an entry of the queue is due at or before the clock the loop
\* enters no sleep and the entry stays where it is until it is popped: it
\* fires again with no sleep in between.
C11_SlowTaskFiresAgainWithoutSleep ==
    /\ [][\A t \in TaskIds :
            (pc = "reschedule" /\ Held(t) /\ InQueue(t)'
                /\ clock - Unwrap(called) > Given(t).interval)
                    => EntryOf(t)'.at < clock']_vars
    /\ [][\A t \in TaskIds :
            (InQueue(t) /\ EntryOf(t).at <= clock)
                => /\ pc' # "sleep"
                   /\ \/ InQueue(t)' /\ EntryOf(t)' = EntryOf(t)
                      \/ Held(t)' /\ Unwrap(task') = EntryOf(t)]_vars
    /\ [](pc = "sleep" => \A i \in 1..Len(schedule) : schedule[i].at > clock)

\* The only task of a batch, an Every task with a positive interval, is
\* popped again later after its due time than a lag of the clock reading
\* explains: its callable has run for longer than its interval.
C11_Witness ==
    /\ Len(tasks) = 1
    /\ IsEvery(1) /\ Given(1).interval > 0
    /\ pc = "call" /\ Held(1)
    /\ runs[1] = MaxRuns
    /\ Unwrap(now) - Unwrap(task).at > MaxLag

(* -------------------------------- C12 --------------------------------- *)

\* C12: an iteration that finds the earliest due time later than its clock
\* reading pops nothing and invokes nothing, and asks for a sleep of exactly
\* that due time minus the reading; the sleep changes neither queue nor
\* invocations and leads back to the top of the loop, where clock and queue
\* are read afresh; a task is never fired before its due time, whether the
\* sleep lasted for the duration asked or ended early.
C12_NotDueOnlySleeps ==
    /\ [][(pc = "run" /\ schedule # <<>> /\ Head(schedule).at > clock')
            => /\ \A i \in 1..Len(schedule) : schedule[i].at >= Head(schedule).at
               /\ pc' = "sleep"
               /\ schedule' = schedule /\ task' = None /\ runs' = runs
               /\ now' = Some(clock')
               /\ diff' = Some(Head(schedule).at - clock')]_vars
    /\ [][pc = "sleep"
            => /\ pc' = "run"
               /\ schedule' = schedule /\ task' = None /\ runs' = runs
               /\ now' = None /\ diff' = None]_vars
    /\ [](pc \in {"call", "reschedule"} =>
            /\ Unwrap(task).at <= Unwrap(now)
            /\ Unwrap(now) <= clock)

\* A sleep has ended early: run has slept, no task has been invoked yet, and
\* the loop sleeps again for the remainder.
C12_Witness ==
    /\ pc = "sleep"
    /\ slept
    /\ \A t \in TaskIds : runs[t] = 0
    /\ Unwrap(diff) = Head(schedule).at - clock
    /\ Unwrap(diff) > 0

(* -------------------------------- C13 --------------------------------- *)

\* C13: the schedule of a fired task goes on as Schedule::reschedule says: a
\* Once task is not pushed back; an Every task is pushed back with the same
\* schedule; a Counted task with a count above 1 is pushed back with the
\* count one less and the same interval, and with a count of 1 or 0 it is
\* not pushed back.  No count leaves 0..MaxCount and every entry keeps the
\* kind and the interval its task was given.
C13_ScheduleTransition ==
    /\ [][\A t \in TaskIds : (pc = "reschedule" /\ Held(t)) =>
            LET s == Unwrap(task).task.schedule
            IN  /\ s.kind = "Once" => ~InQueue(t)'
                /\ s.kind = "Every" =>
                    InQueue(t)' /\ EntryOf(t)'.task.schedule = s
                /\ (s.kind = "Counted" /\ s.count > 1) =>
                    /\ InQueue(t)'
                    /\ EntryOf(t)'.task.schedule =
                           [kind |-> "Counted", count |-> s.count - 1,
                            interval |-> s.interval]
                /\ (s.kind = "Counted" /\ s.count <= 1) => ~InQueue(t)']_vars
    /\ [](\A t \in TaskIds : (InQueue(t) \/ Held(t)) =>
            LET s == IF Held(t) THEN Unwrap(task).task.schedule
                     ELSE EntryOf(t).task.schedule
            IN  /\ s.kind = Given(t).kind
                /\ s.kind = "Once" => s = Given(t)
                /\ s.kind # "Once" => s.interval = Given(t).interval
                /\ s.kind = "Counted" =>
                    /\ s.count \in 0..MaxCount
                    /\ s.count <= Given(t).count)

\* A Counted task given a count of 0 has fired and was not pushed back, and
\* a Counted task given the largest count waits with a count one less.
C13_Witness ==
    /\ pc = "run"
    /\ \E t, u \in TaskIds :
        /\ InBatch(t) /\ InBatch(u)
        /\ IsCounted(t) /\ Given(t).count = 0
        /\ runs[t] = 1 /\ ~InQueue(t)
        /\ IsCounted(u) /\ Given(u).count = MaxCount
        /\ InQueue(u) /\ EntryOf(u).task.schedule.count = MaxCount - 1

(* -------------------------------- C14 --------------------------------- *)

\* C14: with_tasks takes one reading of the clock, the baseline, and leaves
\* a queue with exactly one entry for each task of the batch, carrying the
\* task as given and due at the baseline plus nothing for Once(None), plus d
\* for Once(Some(d)), plus the interval for Every and Counted; tasks with
\* equal waits get equal due times, and a repeating task is not fired before
\* the baseline plus its interval.
C14_WithTasksDueFromOneBaseline ==
    /\ [][pc = "with_tasks" =>
            /\ baseline' = Some(clock)
            /\ Len(schedule') = Len(tasks)
            /\ \A t \in DOMAIN tasks :
                LET s == Given(t)
                    wait == IF s.kind = "Once"
                            THEN (IF s.delay = None THEN 0 ELSE s.delay[1])
                            ELSE s.interval
                IN  /\ Cardinality({i \in 1..Len(schedule') :
                                        schedule'[i].task.f = t}) = 1
                    /\ EntryOf(t)'.task = tasks[t]
                    /\ EntryOf(t)'.at = Unwrap(baseline') + wait
            /\ \A t, u \in DOMAIN tasks :
                AsDuration(Given(t)) = AsDuration(Given(u))
                    => EntryOf(t)'.at = EntryOf(u)'.at]_vars
    /\ [](\A t \in TaskIds : (pc = "call" /\ Held(t) /\ Repeats(t)) =>
            Unwrap(now) >= Unwrap(baseline) + Given(t).interval)

\* with_tasks has just returned a queue of two tasks with equal waits, a
\* Once and an Every task, both due one interval after the baseline.
C14_Witness ==
    /\ pc = "run" /\ now = None /\ ~slept
    /\ \A t \in TaskIds : runs[t] = 0
    /\ Len(tasks) = 2 /\ Len(schedule) = 2
    /\ Given(1) = Once(Some(MaxInterval)) /\ Given(2) = Every(MaxInterval)
    /\ schedule[1].at = Unwrap(baseline) + MaxInterval
    /\ schedule[2].at = Unwrap(baseline) + MaxInterval

(* -------------------------------- C15 --------------------------------- *)

\* C15: whenever run pops, a peek of the same queue has found an entry, the
\* pop hands out that very entry and the queue is left without it and
\* otherwise as it was; an execution always has an entry in hand, so the
\* expect on the result of the pop finds a value.
C15_PopTakesThePeekedEntry ==
    /\ [][(pc = "run" /\ pc' = "call") =>
            /\ HeapPeek(schedule) # None
            /\ task' # None
            /\ task' = HeapPeek(schedule)
            /\ schedule = <<Unwrap(task')>> \o schedule']_vars
    /\ [](pc \in {"call", "reschedule"} => task # None)

\* An entry was popped while another entry with the same due time was in
\* the queue.
C15_Witness ==
    /\ pc = "call"
    /\ task # None
    /\ schedule # <<>>
    /\ Head(schedule).at = Unwrap(task).at

(* -------------------------------- C16 --------------------------------- *)

\* C16: every task of the batch, a Counted task with a count of 0 among
\* them, is in the queue or in execution from with_tasks on until its first
\* invocation, and is invoked at least once; a Counted task with count c is
\* never invoked more than max(c, 1) times and in the end has been invoked
\* exactly max(c, 1) times and is gone: with a count of 0, exactly once.
C16_InvokedAtLeastOnce ==
    /\ [](\A t \in TaskIds :
            /\ (Constructed /\ InBatch(t) /\ runs[t] = 0)
                    => (InQueue(t) \/ Held(t))
            /\ IsCounted(t) => runs[t] <= Max(Given(t).count, 1))
    /\ \A t \in TaskIds : <>(InBatch(t) => runs[t] >= 1)
    /\ \A t \in TaskIds :
            <>[](IsCounted(t) =>
                    /\ runs[t] = Max(Given(t).count, 1)
                    /\ ~InQueue(t) /\ ~Held(t))

\* run has returned after a Counted task with a count of 0 was invoked once
\* and a Counted task with the largest count was invoked that many times.
C16_Witness ==
    /\ pc = "returned"
    /\ \E t, u \in TaskIds :
        /\ IsCounted(t) /\ Given(t).count = 0 /\ runs[t] = 1
        /\ IsCounted(u) /\ Given(u).count = MaxCount /\ runs[u] = MaxCount

(* -------------------------------- C17 --------------------------------- *)

\* C17: the entry a reschedule pushes back is due no earlier than the clock
\* reading of the iteration and no earlier than the entry was due when it
\* was popped; when an execution ends, every entry of the queue is due no
\* earlier than the entry executed was, the queue stays as it is until the
\* next pop, and the next pop takes its head: the due times of the entries
\* executed one after another never go down.
C17_DueTimesNeverGoBack ==
    /\ [][\A t \in TaskIds : (pc = "reschedule" /\ Held(t)) =>
            /\ InQueue(t)' =>
                /\ EntryOf(t)'.at >= Unwrap(now)
                /\ EntryOf(t)'.at >= Unwrap(task).at
            /\ \A i \in 1..Len(schedule') :
                    schedule'[i].at >= Unwrap(task).at]_vars
    /\ [][(pc \in {"run", "sleep"} /\ pc' # "call") => schedule' = schedule]_vars
    /\ [][(pc = "run" /\ pc' = "call") => task' = Some(Head(schedule))]_vars
    /\ [](pc \in {"call", "reschedule"} =>
            \A i \in 1..Len(schedule) : schedule[i].at >= Unwrap(task).at)

\* An Every task that was popped after its due time has been pushed back,
\* due one interval after the reading of that iteration, behind an entry
\* that has not been executed yet and is due earlier.
C17_Witness ==
    /\ pc = "run"
    /\ Len(schedule) = 2
    /\ LET t == schedule[2].task.f
           u == schedule[1].task.f
       IN  /\ IsEvery(t) /\ runs[t] = 1 /\ runs[u] = 0
           /\ schedule[2].at > Unwrap(baseline) + 2 * Given(t).interval
           /\ schedule[1].at < schedule[2].at

(* -------------------------------- C18 --------------------------------- *)

\* C18: while the thread keeps running, the callables return and the clock
\* advances, every entry of the queue that is due before the end of the
\* time under watch is popped and executed in the end, whatever the other
\* tasks of the batch are: also next to an Every task with an interval of
\* zero, firing on every turn of the loop, or one whose callable runs for
\* longer than its interval.
C18_EveryEntryIsExecuted ==
    \A t \in TaskIds :
        (InQueue(t) /\ EntryOf(t).at < LiveClock) ~> (pc = "call" /\ Held(t))

\* A task is popped for its first execution after an Every task with an
\* interval of zero has fired MaxRuns times or more, the last time with the
\* first task already due.
C18_Witness ==
    /\ pc = "call"
    /\ \E t, u \in TaskIds :
        /\ Held(t) /\ runs[t] = 0
        /\ IsEvery(u) /\ Given(u).interval = 0
        /\ runs[u] = MaxRuns
        /\ InQueue(u) /\ EntryOf(u).at > Unwrap(task).at

(* -------------------------------- C19 --------------------------------- *)

\* C19: the entries of the queue together with the entry in execution are
\* never more than the tasks of the batch and, once with_tasks has returned,
\* never become more; a step of run leaves the queue as it is, or removes
\* its head, or adds one entry, and it adds one only at the end of an
\* execution, for the task executed; no task has two entries in the queue
\* and no task is in the queue while it is in execution.
C19_QueueNeverGrows ==
    /\ [](Constructed =>
            /\ Len(schedule) + (IF task = None THEN 0 ELSE 1) <= Len(tasks)
            /\ \A t \in TaskIds :
                /\ Cardinality({i \in 1..Len(schedule) :
                                    schedule[i].task.f = t}) <= 1
                /\ ~(InQueue(t) /\ Held(t))
            /\ (pc \in {"run", "sleep", "returned"}) => task = None)
    /\ [][Constructed =>
            /\ Len(schedule') + (IF task' = None THEN 0 ELSE 1)
                    <= Len(schedule) + (IF task = None THEN 0 ELSE 1)
            /\ \/ schedule' = schedule
               \/ schedule # <<>> /\ schedule' = Tail(schedule)
                    /\ task = None /\ task' # None
               \/ /\ pc = "reschedule" /\ task # None /\ task' = None
                  /\ Len(schedule') = Len(schedule) + 1
                  /\ \A t \in TaskIds : Held(t) => InQueue(t)']_vars

\* Both tasks of a batch of two repeating tasks are back in the queue after
\* each has been executed more than once.
C19_Witness ==
    /\ pc = "run"
    /\ Len(tasks) = 2 /\ Len(schedule) = 2
    /\ Repeats(1) /\ Repeats(2)
    /\ runs[1] >= 2 /\ runs[2] >= 2

(* -------------------------------- C20 --------------------------------- *)

\* C20: a step of run changes no entry that stays in the queue and takes an
\* entry out of the queue only by popping it; the call of a callable changes
\* neither the queue nor the entry in execution; the entry pushed back at
\* the end of an execution carries the callable, the kind and the interval
\* of the entry executed, and for a Counted task a count one less; a
\* sleeping iteration leaves the queue as it is; the batch is never changed.
C20_OnlyTheExecutedEntryChanges ==
    [][Constructed =>
        /\ tasks' = tasks
        /\ \A u \in TaskIds :
            /\ (InQueue(u) /\ InQueue(u)') => EntryOf(u)' = EntryOf(u)
            /\ (InQueue(u) /\ ~InQueue(u)') =>
                    (pc = "run" /\ task' = Some(EntryOf(u)))
            /\ (~InQueue(u) /\ InQueue(u)') => (pc = "reschedule" /\ Held(u))
            /\ (pc = "reschedule" /\ Held(u) /\ InQueue(u)') =>
                LET old == Unwrap(task).task.schedule
                IN  /\ EntryOf(u)'.task.f = u
                    /\ EntryOf(u)'.task.schedule.kind = old.kind
                    /\ EntryOf(u)'.task.schedule.interval = old.interval
                    /\ old.kind = "Counted" =>
                        EntryOf(u)'.task.schedule.count = old.count - 1
        /\ pc = "call" => (schedule' = schedule /\ task' = task)
        /\ (pc \in {"run", "sleep"} /\ pc' \in {"run", "sleep"})
                => schedule' = schedule]_vars

\* A Counted task has been executed and pushed back with its count one less
\* and a new due time, next to an entry that is as with_tasks made it.
C20_Witness ==
    /\ pc = "run"
    /\ \E t, u \in TaskIds :
        /\ t # u /\ InQueue(t) /\ InQueue(u)
        /\ IsCounted(t) /\ runs[t] = 1
        /\ EntryOf(t).task.schedule.count = Given(t).count - 1
        /\ EntryOf(t).at > Unwrap(baseline) + Given(t).interval
        /\ runs[u] = 0
        /\ EntryOf(u) = [at |-> Unwrap(baseline) + AsDuration(Given(u)),
                         task |-> tasks[u]]

====
